---- MODULE Spec2Model ----
(***************************************************************************)
(* A model of kegbot-pyutils: the application lifecycle of kegbot.util.app *)
(* (construction, Start, the PID file, the registered threads, the signal  *)
(* driven Quit), the threads of kegbot.util.util, and the pure helpers     *)
(* (Enum, BaseMessage, kbjson).                                            *)
(*                                                                         *)
(* Time is counted in ticks of half a second: every timeout of the source  *)
(* (0.5 s, 1.0 s, 2.0 s) is a whole number of ticks.                       *)
(***************************************************************************)
EXTENDS Integers, Sequences, FiniteSets, TLC

VARIABLES
  FLAGS,                    \* the parsed gflags: daemon, pidfile, log_to_file, rotate_logs, log_to_stdout
  pc,                       \* position of the main thread in App.__init__ / App.Start
  exitcode,                 \* the process's exit code once it has exited, else -1
  is_daemon,                \* App._is_daemon
  do_quit,                  \* App._do_quit
  quit_event,               \* App._quit_event (threading.Event): is it set
  threads,                  \* App._threads: the registered threads
  logger_set,               \* App._logger has been assigned
  logging_file_handler,     \* App._logging_file_handler: "none", "rotating" or "static"
  logging_stdout_handler,   \* App._logging_stdout_handler: is one held
  root_handlers,            \* logging.root.handlers
  signals_installed,        \* signal.signal(...) has installed _QuitSignalHandler
  daemonized,               \* util.daemonize() has run
  mypid,                    \* os.getpid()
  procs,                    \* the other live processes: pid -> "mine" or "foreign" (another user's)
  pidfile,                  \* the file at FLAGS.pidfile: "absent", "unreadable" or its characters
  pidfile0,                 \* the file as it was when the process started
  fs_writable,              \* whether open(FLAGS.pidfile, 'w') succeeds
  pid_outcome,              \* what _CheckAndRecordPid did: "none", "skipped", "written", "aborted"
  start_todo,               \* _StartThreads: the threads the for loop has not reached yet
  wait_timer,               \* ticks left of the main loop's _quit_event.wait(timeout=1.0)
  frames,                   \* the stack of running _QuitSignalHandler/Quit calls, innermost last
  sig_left,                 \* termination signals the environment may still deliver
  kind,                     \* per thread: which ThreadMain it runs
  tstate,                   \* per thread: "new", "running" (isAlive) or "exited"
  tpc,                      \* per thread: position in ThreadMain
  ttimer,                   \* per thread: ticks left of its current timed call
  tquit,                    \* per thread: KegbotThread._quit
  tcrashed,                 \* per thread: run() caught an exception of ThreadMain
  quit_log,                 \* the last Quit call that returned: what it saw and did
  class_fields,             \* BaseMessage subclass: field name -> the kind of its descriptor
  msg,                      \* a BaseMessage instance: _values and its other instance attributes
  msg_last,                 \* the last write attempted on it, and how it ended
  defs,                     \* Enum(defs): the definition list
  enum,                     \* what Enum(defs) built, or that it raised
  enum_inv,                 \* the last inversion ~v: its operand and its result
  kb_obj,                   \* the mapping handed to kbjson.dumps
  kb_doc,                   \* the JSON document dumps returned
  kb_out,                   \* the mapping kbjson.loads returned for it
  kb_pc                     \* how far the round trip has got

appvars == << FLAGS, pc, exitcode, is_daemon, do_quit, quit_event, threads, logger_set,
              logging_file_handler, logging_stdout_handler, root_handlers,
              signals_installed, daemonized, mypid, procs, pidfile, pidfile0,
              fs_writable, pid_outcome, start_todo, wait_timer, frames, sig_left,
              kind, tstate, tpc, ttimer, tquit, tcrashed, quit_log >>

msgvars == << class_fields, msg, msg_last >>

enumvars == << defs, enum, enum_inv >>

kbvars == << kb_obj, kb_doc, kb_out, kb_pc >>

purevars == << msgvars, enumvars, kbvars >>

vars == << appvars, purevars >>

logvars == << logging_file_handler, logging_stdout_handler, root_handlers >>
envvars == << FLAGS, procs, pidfile0, fs_writable >>
thrvars == << kind, tstate, tpc, ttimer, tquit, tcrashed >>

(***************************************************************************)
(* Bounds of the model.                                                    *)
(***************************************************************************)
MaxThreads == 2
MaxEnumLen == 3
MaxOrdinal == 2
MaxSignals == 2
StartupThreads == 1
StartupSignals == 1

(***************************************************************************)
(* Timeouts of the source, in ticks of 0.5 s.                              *)
(***************************************************************************)
MainWaitTicks == 2
JoinTicks == 4
LoopTicks == 1
SleepTicks == 1

\* The threads the application subclass registers: 1..n for the n it has.
ThreadIds == DOMAIN kind
\* The ThreadMain a registered thread runs: AsyncoreThread's polling loop,
\* KegbotThread's own (pass), or a subclass's that never reads _quit.

(***************************************************************************)
(* The PID file's text: '%i\n' % pid written, int(readline().strip()) read. *)
(***************************************************************************)
DigitChars == << "0", "1", "2", "3", "4", "5", "6", "7", "8", "9" >>
Whitespace == {" ", "\n"}

RECURSIVE IntToStr(_)
IntToStr(n) ==
  IF n < 10 THEN << DigitChars[n + 1] >>
  ELSE IntToStr(n \div 10) \o << DigitChars[(n % 10) + 1] >>

FormatPid(pid) == IntToStr(pid) \o << "\n" >>

\* file.readline(): the text up to and including the first newline.
RECURSIVE ReadLine(_)
ReadLine(s) ==
  IF s = << >> THEN << >>
  ELSE IF Head(s) = "\n" THEN << "\n" >>
  ELSE << Head(s) >> \o ReadLine(Tail(s))

RECURSIVE LStrip(_)
LStrip(s) ==
  IF s # << >> /\ Head(s) \in Whitespace THEN LStrip(Tail(s)) ELSE s

RECURSIVE RStrip(_)
RStrip(s) ==
  IF s # << >> /\ s[Len(s)] \in Whitespace THEN RStrip(SubSeq(s, 1, Len(s) - 1)) ELSE s


IsDigits(s) == s # << >> /\ \A i \in 1..Len(s) : \E d \in 1..10 : DigitChars[d] = s[i]

DigitVal(c) == (CHOOSE d \in 1..10 : DigitChars[d] = c) - 1

RECURSIVE StrToInt(_)
StrToInt(s) ==
  IF Len(s) = 1 THEN DigitVal(s[1])
  ELSE 10 * StrToInt(SubSeq(s, 1, Len(s) - 1)) + DigitVal(s[Len(s)])

\* open(FLAGS.pidfile); int(pid_fd.readline().strip()): the pid, or the
\* IOError / ValueError the except clause catches.
ReadOldPid(f) ==
  IF ~f.readable THEN [ok |-> FALSE, pid |-> 0]
  ELSE LET line == RStrip(LStrip(ReadLine(f.text)))
       IN  IF IsDigits(line) THEN [ok |-> TRUE, pid |-> StrToInt(line)]
           ELSE [ok |-> FALSE, pid |-> 0]

NoFile == [exists |-> FALSE, readable |-> FALSE, text |-> << >>]
TextFile(t) == [exists |-> TRUE, readable |-> TRUE, text |-> t]

\* os.kill(pid, 0): "ok", or the errno of the OSError.
Kill(pid) ==
  IF pid = mypid THEN "ok"
  ELSE IF pid \in DOMAIN procs
       THEN (IF procs[pid] = "mine" THEN "ok" ELSE "EPERM")
       ELSE "ESRCH"

\* Mutant: any OSError counts as "no such process".
PidIsAliveOnlyIfSignalled(pid) == Kill(pid) = "ok"

PidIsAlive(pid) == Kill(pid) # "ESRCH"

\* Ground truth the claims speak of: the process with this id exists.
ProcessExists(pid) == pid = mypid \/ pid \in DOMAIN procs

(***************************************************************************)
(* The environment a process may start in.                                 *)
(***************************************************************************)
StartPids == {7}
ProcTables == { [p \in {3} |-> "mine"], [p \in {11} |-> "foreign"] }
PidFiles ==
  { NoFile,
    [exists |-> TRUE, readable |-> FALSE, text |-> FormatPid(3)],
    TextFile(<< >>), TextFile(<< "x", "\n" >>),
    TextFile(<< " ", "3", "\n" >>), TextFile(<< "1", "1" >>),
    TextFile(FormatPid(5)), TextFile(FormatPid(7)), TextFile(FormatPid(12)) }

FlagSets ==
  { f \in [daemon : BOOLEAN, pidfile : BOOLEAN, log_to_file : BOOLEAN,
           rotate_logs : BOOLEAN, log_to_stdout : BOOLEAN] :
      ~f.log_to_file => f.rotate_logs }

\* The flags of a plain foreground run: no pidfile, logging to the console.
PlainFlags == { f \in FlagSets : ~f.daemon /\ ~f.pidfile /\ ~f.log_to_file /\ f.log_to_stdout }

NoQuit == [valid |-> FALSE, running |-> FALSE, asked |-> {}, joins |-> << >>,
           timed_out |-> {}, alive_at_return |-> {}]

KindRank(k) == IF k = "asyncore" THEN 1 ELSE IF k = "base" THEN 2 ELSE 3

\* The thread sets of up to n threads, one per multiset of kinds.
ThreadSets(n) ==
  UNION { { ks \in [1..m -> {"asyncore", "base", "deaf"}] :
              \A i \in 1..m, j \in 1..m : i < j => KindRank(ks[i]) <= KindRank(ks[j]) } :
          m \in 0..n }

AppInit(flagsets, nthreads, nsignals) ==
  /\ FLAGS \in flagsets
  /\ pc = "ctor_logging"
  /\ exitcode = -1
  /\ is_daemon = FLAGS.daemon
  /\ do_quit = FALSE
  /\ quit_event = FALSE
  /\ threads = {}
  /\ logger_set = FALSE
  /\ logging_file_handler = "none"
  /\ logging_stdout_handler = FALSE
  /\ root_handlers = {}
  /\ signals_installed = FALSE
  /\ daemonized = FALSE
  /\ mypid \in StartPids
  /\ procs \in ProcTables
  /\ pidfile \in PidFiles
  /\ pidfile0 = pidfile
  /\ fs_writable \in BOOLEAN
  /\ (~FLAGS.pidfile => pidfile = NoFile /\ fs_writable /\ procs = [p \in {3} |-> "mine"])
  /\ pid_outcome = "none"
  /\ start_todo = {}
  /\ wait_timer = 0
  /\ frames = << >>
  /\ sig_left = nsignals
  /\ kind \in ThreadSets(nthreads)
  /\ tstate = [t \in ThreadIds |-> "new"]
  /\ tpc = [t \in ThreadIds |-> "idle"]
  /\ ttimer = [t \in ThreadIds |-> 0]
  /\ tquit = [t \in ThreadIds |-> FALSE]
  /\ tcrashed = [t \in ThreadIds |-> FALSE]
  /\ quit_log = NoQuit

\* The application's variables in a run that uses only the helpers.
AppIdle ==
  /\ FLAGS \in PlainFlags
  /\ pc = "done" /\ exitcode = 0 /\ is_daemon = FALSE /\ do_quit = FALSE
  /\ quit_event = FALSE /\ threads = {} /\ logger_set = FALSE
  /\ logging_file_handler = "none" /\ logging_stdout_handler = FALSE
  /\ root_handlers = {} /\ signals_installed = FALSE /\ daemonized = FALSE
  /\ mypid \in StartPids /\ procs = [p \in {3} |-> "mine"]
  /\ pidfile = NoFile /\ pidfile0 = NoFile /\ fs_writable = TRUE
  /\ pid_outcome = "none" /\ start_todo = {} /\ wait_timer = 0 /\ frames = << >>
  /\ sig_left = 0 /\ kind = << >> /\ tstate = << >> /\ tpc = << >>
  /\ ttimer = << >> /\ tquit = << >> /\ tcrashed = << >> /\ quit_log = NoQuit

ProcessAlive == pc \notin {"done", "exited"}
MainRuns == ProcessAlive /\ frames = << >>

(***************************************************************************)
(* App.__init__ (after its fields are set): the three calls it ends with.  *)
(***************************************************************************)
FileHandlerFor(f) ==
  IF ~f.log_to_file THEN "none"
  ELSE IF f.rotate_logs THEN "rotating" ELSE "static"

\* Mutant: the console sink is installed in daemon mode too.
StdoutHandlerAlways(f, daemon) == f.log_to_stdout

StdoutHandlerFor(f, daemon) == f.log_to_stdout /\ ~daemon

SetupLogging ==
  /\ MainRuns /\ pc = "ctor_logging"
  /\ logging_file_handler' = FileHandlerFor(FLAGS)
  /\ logging_stdout_handler' = StdoutHandlerFor(FLAGS, is_daemon)
  /\ root_handlers' = root_handlers
        \cup (IF FileHandlerFor(FLAGS) # "none" THEN {"file"} ELSE {})
        \cup (IF StdoutHandlerFor(FLAGS, is_daemon) THEN {"stdout"} ELSE {})
  /\ pc' = "ctor_signals"
  /\ UNCHANGED << purevars, FLAGS, exitcode, is_daemon, do_quit, quit_event, threads, logger_set,
                  signals_installed, daemonized, mypid, procs, pidfile, pidfile0,
                  fs_writable, pid_outcome, start_todo, wait_timer, frames, sig_left,
                  kind, tstate, tpc, ttimer, tquit, tcrashed, quit_log >>

SetupSignalHandlers ==
  /\ MainRuns /\ pc = "ctor_signals"
  /\ signals_installed' = TRUE
  /\ pc' = "ctor_logger"
  /\ UNCHANGED << purevars, FLAGS, exitcode, is_daemon, do_quit, quit_event, threads, logger_set,
                  logging_file_handler, logging_stdout_handler, root_handlers,
                  daemonized, mypid, procs, pidfile, pidfile0,
                  fs_writable, pid_outcome, start_todo, wait_timer, frames, sig_left,
                  kind, tstate, tpc, ttimer, tquit, tcrashed, quit_log >>

GetLogger ==
  /\ MainRuns /\ pc = "ctor_logger"
  /\ logger_set' = TRUE
  /\ pc' = "constructed"
  /\ UNCHANGED << purevars, FLAGS, exitcode, is_daemon, do_quit, quit_event, threads,
                  logging_file_handler, logging_stdout_handler, root_handlers,
                  signals_installed, daemonized, mypid, procs, pidfile, pidfile0,
                  fs_writable, pid_outcome, start_todo, wait_timer, frames, sig_left,
                  kind, tstate, tpc, ttimer, tquit, tcrashed, quit_log >>

\* The subclass registers its threads between App.__init__ and Start.
AddAppThread(thr) ==
  /\ MainRuns /\ pc = "constructed"
  /\ thr \notin threads
  /\ thr = Cardinality(threads) + 1
  /\ threads' = threads \cup {thr}
  /\ UNCHANGED << purevars, FLAGS, pc, kind, exitcode, is_daemon, do_quit, quit_event, logger_set,
                  logging_file_handler, logging_stdout_handler, root_handlers,
                  signals_installed, daemonized, mypid, procs, pidfile, pidfile0,
                  fs_writable, pid_outcome, start_todo, wait_timer, frames, sig_left,
                  tstate, tpc, ttimer, tquit, tcrashed, quit_log >>

(***************************************************************************)
(* App.Start: _Setup, _CheckAndRecordPid, _StartThreads, _MainLoop,        *)
(* _Teardown.                                                              *)
(***************************************************************************)
Start ==
  /\ MainRuns /\ pc = "constructed"
  /\ threads = ThreadIds
  /\ pc' = "setup"
  /\ UNCHANGED << purevars, envvars, logvars, thrvars, exitcode, is_daemon, do_quit, quit_event,
                  threads, logger_set, signals_installed, daemonized, mypid, pidfile,
                  pid_outcome, start_todo, wait_timer, frames, sig_left, quit_log >>

\* _Setup: util.daemonize() forks twice and the grandchild carries on under
\* a new process id.
Setup ==
  /\ MainRuns /\ pc = "setup"
  /\ IF is_daemon
       THEN /\ daemonized' = TRUE
            /\ mypid' \in {12}
       ELSE UNCHANGED << daemonized, mypid >>
  /\ pc' = "checkpid"
  /\ UNCHANGED << purevars, envvars, logvars, thrvars, exitcode, is_daemon, do_quit, quit_event,
                  threads, logger_set, signals_installed, pidfile,
                  pid_outcome, start_todo, wait_timer, frames, sig_left, quit_log >>

\* What _CheckAndRecordPid decides on the file it finds: "abort" (sys.exit(1))
\* or "write".
PidDecision(f) ==
  IF f.exists
    THEN LET old == ReadOldPid(f)
         IN  IF ~old.ok THEN "abort"
             ELSE IF PidIsAlive(old.pid) THEN "abort"
             ELSE IF fs_writable THEN "write" ELSE "abort"
    ELSE IF fs_writable THEN "write" ELSE "abort"

\* Mutant: the pid read before util.daemonize() forked.
PidBeforeDaemonize == CHOOSE p \in StartPids : TRUE

\* The pid _CheckAndRecordPid writes: os.getpid() at the time of the call.
PidToRecord == mypid

CheckAndRecordPid ==
  /\ MainRuns /\ pc = "checkpid"
  /\ IF ~FLAGS.pidfile
       THEN /\ pid_outcome' = "skipped"
            /\ pc' = "startthreads"
            /\ start_todo' = threads
            /\ UNCHANGED << pidfile, exitcode >>
       ELSE IF PidDecision(pidfile) = "abort"
         THEN /\ pid_outcome' = "aborted"
              /\ pc' = "exited"
              /\ exitcode' = 1
              /\ UNCHANGED << pidfile, start_todo >>
         ELSE /\ pid_outcome' = "written"
              /\ pidfile' = TextFile(FormatPid(PidToRecord))
              /\ pc' = "startthreads"
              /\ start_todo' = threads
              /\ UNCHANGED exitcode
  /\ UNCHANGED << purevars, envvars, logvars, thrvars, is_daemon, do_quit, quit_event,
                  threads, logger_set, signals_installed, daemonized, mypid,
                  wait_timer, frames, sig_left, quit_log >>

\* Where run() enters the thread's ThreadMain.
EntryPc(k) == IF k = "asyncore" THEN "check" ELSE IF k = "base" THEN "main" ELSE "spin"

\* _StartThreads: one turn of the for loop (thr.start()), or its end.
StartThreads ==
  /\ MainRuns /\ pc = "startthreads"
  /\ IF start_todo = {}
       THEN /\ pc' = "mainloop"
            /\ UNCHANGED << start_todo, thrvars >>
       ELSE \E thr \in start_todo :
            /\ start_todo' = start_todo \ {thr}
            /\ tstate' = [tstate EXCEPT ![thr] = "running"]
            /\ tpc' = [tpc EXCEPT ![thr] = EntryPc(kind[thr])]
            /\ UNCHANGED << pc, kind, ttimer, tquit, tcrashed >>
  /\ UNCHANGED << purevars, envvars, logvars, exitcode, is_daemon, do_quit, quit_event,
                  threads, logger_set, signals_installed, daemonized, mypid, pidfile,
                  pid_outcome, wait_timer, frames, sig_left, quit_log >>

\* _MainLoop: the while test, then _quit_event.wait(timeout=1.0).
MainLoopTest ==
  /\ MainRuns /\ pc = "mainloop"
  /\ IF do_quit
       THEN pc' = "teardown" /\ UNCHANGED wait_timer
       ELSE pc' = "waiting" /\ wait_timer' = MainWaitTicks
  /\ UNCHANGED << purevars, envvars, logvars, thrvars, exitcode, is_daemon, do_quit, quit_event,
                  threads, logger_set, signals_installed, daemonized, mypid, pidfile,
                  pid_outcome, start_todo, frames, sig_left, quit_log >>

MainLoopWake ==
  /\ MainRuns /\ pc = "waiting"
  /\ quit_event \/ wait_timer = 0
  /\ pc' = "mainloop"
  /\ wait_timer' = 0
  /\ UNCHANGED << purevars, envvars, logvars, thrvars, exitcode, is_daemon, do_quit, quit_event,
                  threads, logger_set, signals_installed, daemonized, mypid, pidfile,
                  pid_outcome, start_todo, frames, sig_left, quit_log >>

\* _Teardown: os.unlink(FLAGS.pidfile); Start returns and the process ends.
Teardown ==
  /\ MainRuns /\ pc = "teardown"
  /\ pidfile' = IF FLAGS.pidfile THEN NoFile ELSE pidfile
  /\ pc' = "done"
  /\ exitcode' = 0
  /\ UNCHANGED << purevars, envvars, logvars, thrvars, is_daemon, do_quit, quit_event,
                  threads, logger_set, signals_installed, daemonized, mypid,
                  pid_outcome, start_todo, wait_timer, frames, sig_left, quit_log >>

(***************************************************************************)
(* Quit, run by _QuitSignalHandler in the main thread between two of its   *)
(* steps (a second signal interrupts a running handler the same way).      *)
(***************************************************************************)
AppRunning == pc \in {"mainloop", "waiting"}

NewFrame ==
  [hpc |-> IF threads = {} THEN "teardown_logging" ELSE "stop",
   todo |-> threads, cur |-> 0, jt |-> 0, running |-> AppRunning,
   asked |-> {}, joins |-> [t \in ThreadIds |-> 0], timed_out |-> {}]

Top == frames[Len(frames)]
SetTop(f) == [frames EXCEPT ![Len(frames)] = f]

\* A termination signal arrives. The handler's first statement reads
\* self._logger, which __init__ assigns only after installing the handlers.
QuitSignalHandler ==
  /\ ProcessAlive /\ signals_installed /\ sig_left > 0
  /\ sig_left' = sig_left - 1
  /\ IF logger_set
       THEN /\ frames' = Append(frames, NewFrame)
            /\ UNCHANGED << pc, exitcode >>
       ELSE /\ pc' = "exited"
            /\ exitcode' = 1
            /\ UNCHANGED frames
  /\ UNCHANGED << purevars, envvars, logvars, thrvars, is_daemon, do_quit, quit_event,
                  threads, logger_set, signals_installed, daemonized, mypid, pidfile,
                  pid_outcome, start_todo, wait_timer, quit_log >>

\* Mutant: Quit leaves _quit as it is.
ThreadQuitNoop(q, thr) == q

\* KegbotThread.Quit
ThreadQuit(q, thr) == [q EXCEPT ![thr] = TRUE]

\* Mutant: thr.join() without a timeout.
JoinWithoutTimeout(f) == tstate[f.cur] # "running"

\* thr.join(2.0) returns: the thread has ended, or the timeout has passed.
JoinReturns(f) == tstate[f.cur] # "running" \/ f.jt = 0

\* _StopThreads: the for loop's next thread, with `if thr.isAlive(): thr.Quit()`.
StopThreadsNext ==
  /\ ProcessAlive /\ frames # << >> /\ Top.hpc = "stop"
  /\ IF Top.todo = {}
       THEN /\ frames' = SetTop([Top EXCEPT !.hpc = "teardown_logging"])
            /\ UNCHANGED tquit
       ELSE \E thr \in Top.todo :
            IF tstate[thr] = "running"
              THEN /\ tquit' = ThreadQuit(tquit, thr)
                   /\ frames' = SetTop([Top EXCEPT !.hpc = "alive2", !.cur = thr,
                                                   !.todo = @ \ {thr},
                                                   !.asked = @ \cup {thr}])
              ELSE /\ frames' = SetTop([Top EXCEPT !.hpc = "alive2", !.cur = thr,
                                                   !.todo = @ \ {thr}])
                   /\ UNCHANGED tquit
  /\ UNCHANGED << purevars, envvars, logvars, pc, exitcode, is_daemon, do_quit, quit_event,
                  threads, logger_set, signals_installed, daemonized, mypid, pidfile,
                  pid_outcome, start_todo, wait_timer, sig_left, quit_log,
                  kind, tstate, tpc, ttimer, tcrashed >>

\* _StopThreads: `if thr.isAlive(): thr.join(2.0)`, entering the join.
StopThreadsJoin ==
  /\ ProcessAlive /\ frames # << >> /\ Top.hpc = "alive2"
  /\ IF tstate[Top.cur] = "running"
       THEN frames' = SetTop([Top EXCEPT !.hpc = "join", !.jt = JoinTicks,
                                         !.joins[Top.cur] = @ + 1])
       ELSE frames' = SetTop([Top EXCEPT !.hpc = "stop"])
  /\ UNCHANGED << purevars, envvars, logvars, thrvars, pc, exitcode, is_daemon, do_quit,
                  quit_event, threads, logger_set, signals_installed, daemonized,
                  mypid, pidfile, pid_outcome, start_todo, wait_timer, sig_left,
                  quit_log >>

StopThreadsJoined ==
  /\ ProcessAlive /\ frames # << >> /\ Top.hpc = "join"
  /\ JoinReturns(Top)
  /\ frames' = SetTop([Top EXCEPT !.hpc = "stop", !.jt = 0,
                         !.timed_out = IF tstate[Top.cur] = "running"
                                         THEN @ \cup {Top.cur} ELSE @])
  /\ UNCHANGED << purevars, envvars, logvars, thrvars, pc, exitcode, is_daemon, do_quit,
                  quit_event, threads, logger_set, signals_installed, daemonized,
                  mypid, pidfile, pid_outcome, start_todo, wait_timer, sig_left,
                  quit_log >>

TeardownLogging ==
  /\ ProcessAlive /\ frames # << >> /\ Top.hpc = "teardown_logging"
  /\ logging_file_handler' = "none"
  /\ logging_stdout_handler' = FALSE
  /\ root_handlers' = root_handlers
        \ ((IF logging_file_handler # "none" THEN {"file"} ELSE {})
           \cup (IF logging_stdout_handler THEN {"stdout"} ELSE {}))
  /\ frames' = SetTop([Top EXCEPT !.hpc = "set_quit"])
  /\ UNCHANGED << purevars, envvars, thrvars, pc, exitcode, is_daemon, do_quit,
                  quit_event, threads, logger_set, signals_installed, daemonized,
                  mypid, pidfile, pid_outcome, start_todo, wait_timer, sig_left,
                  quit_log >>

\* Quit's last two statements; Quit and the handler return.
QuitSetFlag ==
  /\ ProcessAlive /\ frames # << >> /\ Top.hpc = "set_quit"
  /\ do_quit' = TRUE
  /\ quit_event' = TRUE
  /\ quit_log' = [valid |-> TRUE, running |-> Top.running, asked |-> Top.asked,
                  joins |-> Top.joins, timed_out |-> Top.timed_out,
                  alive_at_return |-> {t \in threads : tstate[t] = "running"}]
  /\ frames' = SubSeq(frames, 1, Len(frames) - 1)
  /\ UNCHANGED << purevars, envvars, logvars, thrvars, pc, exitcode, is_daemon,
                  threads, logger_set, signals_installed, daemonized,
                  mypid, pidfile, pid_outcome, start_todo, wait_timer, sig_left >>

(***************************************************************************)
(* The registered threads: KegbotThread.run and the ThreadMain it calls.   *)
(***************************************************************************)
ThreadExit(t, crashed) ==
  /\ tstate' = [tstate EXCEPT ![t] = "exited"]
  /\ tpc' = [tpc EXCEPT ![t] = "idle"]
  /\ ttimer' = [ttimer EXCEPT ![t] = 0]
  /\ tcrashed' = [tcrashed EXCEPT ![t] = crashed]

\* KegbotThread.ThreadMain: pass.
BaseThreadMain(t) ==
  /\ ProcessAlive /\ tstate[t] = "running" /\ tpc[t] = "main"
  /\ ThreadExit(t, FALSE)
  /\ UNCHANGED << purevars, envvars, logvars, pc, exitcode, is_daemon, do_quit,
                  quit_event, threads, logger_set, signals_installed, daemonized,
                  mypid, pidfile, pid_outcome, start_todo, wait_timer, sig_left,
                  quit_log, frames, kind, tquit >>

\* AsyncoreThread.ThreadMain: `while not self._quit`, then asyncore.loop
\* (a select of up to 0.5 s when there are sockets, nothing when there are none).
AsyncoreTest(t) ==
  /\ ProcessAlive /\ tstate[t] = "running" /\ tpc[t] = "check"
  /\ IF tquit[t]
       THEN ThreadExit(t, FALSE)
       ELSE /\ \E sockets \in BOOLEAN :
                 IF sockets
                   THEN tpc' = [tpc EXCEPT ![t] = "loop"]
                        /\ ttimer' = [ttimer EXCEPT ![t] = LoopTicks]
                   ELSE tpc' = [tpc EXCEPT ![t] = "sleep"]
                        /\ ttimer' = [ttimer EXCEPT ![t] = SleepTicks]
            /\ UNCHANGED << tstate, tcrashed >>
  /\ UNCHANGED << purevars, envvars, logvars, pc, exitcode, is_daemon, do_quit,
                  quit_event, threads, logger_set, signals_installed, daemonized,
                  mypid, pidfile, pid_outcome, start_todo, wait_timer, sig_left,
                  quit_log, frames, kind, tquit >>

\* asyncore.loop returns (an event, or its timeout), or raises; then
\* `if not asyncore.socket_map: time.sleep(0.5)`.
AsyncoreLoop(t) ==
  /\ ProcessAlive /\ tstate[t] = "running" /\ tpc[t] = "loop"
  /\ \E outcome \in {"sockets", "no_sockets", "raise"} :
       CASE outcome = "sockets" ->
              /\ tpc' = [tpc EXCEPT ![t] = "check"]
              /\ ttimer' = [ttimer EXCEPT ![t] = 0]
              /\ UNCHANGED << tstate, tcrashed >>
         [] outcome = "no_sockets" ->
              /\ tpc' = [tpc EXCEPT ![t] = "sleep"]
              /\ ttimer' = [ttimer EXCEPT ![t] = SleepTicks]
              /\ UNCHANGED << tstate, tcrashed >>
         [] outcome = "raise" -> ThreadExit(t, TRUE)
  /\ UNCHANGED << purevars, envvars, logvars, pc, exitcode, is_daemon, do_quit,
                  quit_event, threads, logger_set, signals_installed, daemonized,
                  mypid, pidfile, pid_outcome, start_todo, wait_timer, sig_left,
                  quit_log, frames, kind, tquit >>

AsyncoreSleep(t) ==
  /\ ProcessAlive /\ tstate[t] = "running" /\ tpc[t] = "sleep"
  /\ ttimer[t] = 0
  /\ tpc' = [tpc EXCEPT ![t] = "check"]
  /\ UNCHANGED << purevars, envvars, logvars, pc, exitcode, is_daemon, do_quit,
                  quit_event, threads, logger_set, signals_installed, daemonized,
                  mypid, pidfile, pid_outcome, start_todo, wait_timer, sig_left,
                  quit_log, frames, kind, tquit, tstate, ttimer, tcrashed >>

(***************************************************************************)
(* Half a second passes. A thread between two timed calls, and a running   *)
(* Quit outside its join, take their next step before it does.             *)
(***************************************************************************)
Dec(n) == IF n > 0 THEN n - 1 ELSE 0

TimeMayPass ==
  /\ \A t \in ThreadIds : tstate[t] = "running" =>
        /\ tpc[t] \notin {"main", "check"}
        /\ tpc[t] \in {"loop", "sleep"} => ttimer[t] > 0
  /\ frames # << >> => Top.hpc = "join" /\ ~JoinReturns(Top)
  /\ frames = << >> => (pc = "waiting" /\ wait_timer > 0 /\ ~quit_event)

Tick ==
  /\ ProcessAlive /\ TimeMayPass
  /\ ttimer' = [t \in ThreadIds |-> Dec(ttimer[t])]
  /\ frames' = [i \in DOMAIN frames |-> [frames[i] EXCEPT !.jt = Dec(@)]]
  /\ wait_timer' = Dec(wait_timer)
  /\ UNCHANGED << purevars, envvars, logvars, pc, exitcode, is_daemon, do_quit,
                  quit_event, threads, logger_set, signals_installed, daemonized,
                  mypid, pidfile, pid_outcome, start_todo, sig_left,
                  quit_log, kind, tquit, tstate, tpc, tcrashed >>

(***************************************************************************)
(* BaseField / BaseMessage. A record type declares the fields a and b; the *)
(* descriptor of each is BaseField itself or a subclass overriding         *)
(* _Validate (it raises on a negative value) or ParseValue (it returns a   *)
(* normalised value).  None is << >>, a value v is << v >>.                *)
(***************************************************************************)
Fields == {"a", "b"}
Undeclared == {"zz"}
Names == Fields \cup Undeclared
FieldKinds == {"base", "validating", "normalising"}
FieldValues == {-1, 1}
None == << >>

\* BaseField._Validate: pass; a validating subclass raises.
Validate(k, v) == IF k = "validating" /\ v < 0 THEN "InvalidFieldValue" ELSE "ok"

\* BaseField.ParseValue: self._Validate(value); return value.
ParseValue(k, v) == IF k = "normalising" /\ v < 0 THEN 0 ELSE v

\* The values ParseValue can return for a field of kind k.
ParseRange(k) == { ParseValue(k, v) : v \in { w \in FieldValues : Validate(k, w) = "ok" } }

\* A mapping (dict): name -> None when the key is absent, << v >> when present.
Mappings == [Names -> {None} \cup { << v >> : v \in FieldValues }]
Keys(d) == { n \in Names : d[n] # None }

\* __init__: _values = dict((k, None) for k in class_fields).
NewMessage == [values |-> [f \in Fields |-> None], attrs |-> [n \in Undeclared |-> None]]
NoMessage == [exists |-> FALSE, inst |-> NewMessage]

\* setattr(self, k, v): the property add_field installed for a declared
\* name (its setter stores parser.ParseValue(value)); for any other name an
\* ordinary instance attribute.
SetAttr(inst, k, v) ==
  IF k \in Fields
    THEN IF Validate(class_fields[k], v) = "ok"
           THEN [err |-> "ok",
                 inst |-> [inst EXCEPT !.values[k] = << ParseValue(class_fields[k], v) >>]]
           ELSE [err |-> Validate(class_fields[k], v), inst |-> inst]
    ELSE [err |-> "ok", inst |-> [inst EXCEPT !.attrs[k] = << v >>]]

\* _UpdateFromDict: for k, v in d.items(): setattr(self, k, v).
RECURSIVE UpdateFromDict(_, _, _)
UpdateFromDict(inst, d, todo) ==
  IF todo = {} THEN [err |-> "ok", inst |-> inst]
  ELSE LET k == CHOOSE n \in todo : TRUE
           r == SetAttr(inst, k, d[k][1])
       IN  IF r.err # "ok" THEN r ELSE UpdateFromDict(r.inst, d, todo \ {k})

\* BaseMessage.SetValue
SetValueResult(inst, fieldname, value) ==
  IF fieldname \notin DOMAIN inst.values
    THEN [err |-> "KeyError", inst |-> inst]
    ELSE [err |-> "ok", inst |-> [inst EXCEPT !.values[fieldname] = << value >>]]

MsgInit ==
  /\ class_fields \in [Fields -> FieldKinds]
  /\ msg = NoMessage
  /\ msg_last = [op |-> "none", names |-> {}, err |-> "ok", before |-> NoMessage]

MsgIdle ==
  /\ class_fields = [f \in Fields |-> "base"]
  /\ msg = NoMessage
  /\ msg_last = [op |-> "off", names |-> {}, err |-> "ok", before |-> NoMessage]

MsgOn == msg_last.op # "off"

\* m = Message(initial, **kwargs): the mapping is applied if given, else the
\* keyword overrides; an exception leaves m as it was.
MessageInit(has_initial, initial, kwargs) ==
  /\ MsgOn
  /\ LET d == IF has_initial THEN initial ELSE kwargs
         r == UpdateFromDict(NewMessage, d, Keys(d))
     IN  /\ msg' = IF r.err = "ok" THEN [exists |-> TRUE, inst |-> r.inst] ELSE msg
         /\ msg_last' = [op |-> IF has_initial THEN "init_mapping" ELSE "init_kwargs",
                         names |-> Keys(d), err |-> r.err, before |-> msg]
  /\ UNCHANGED << appvars, enumvars, kbvars, class_fields >>

\* m.name = value
MessageSetAttr(k, v) ==
  /\ MsgOn /\ msg.exists
  /\ LET r == SetAttr(msg.inst, k, v)
     IN  /\ msg' = [msg EXCEPT !.inst = r.inst]
         /\ msg_last' = [op |-> "setattr", names |-> {k}, err |-> r.err, before |-> msg]
  /\ UNCHANGED << appvars, enumvars, kbvars, class_fields >>

\* m.SetValue(fieldname, value)
MessageSetValue(fieldname, value) ==
  /\ MsgOn /\ msg.exists
  /\ LET r == SetValueResult(msg.inst, fieldname, value)
     IN  /\ msg' = [msg EXCEPT !.inst = r.inst]
         /\ msg_last' = [op |-> "SetValue", names |-> {fieldname}, err |-> r.err,
                         before |-> msg]
  /\ UNCHANGED << appvars, enumvars, kbvars, class_fields >>

MsgNext ==
  \/ \E has_initial \in BOOLEAN, initial \in Mappings, kwargs \in Mappings :
       /\ (has_initial => kwargs = [n \in Names |-> None])
       /\ (~has_initial => initial = [n \in Names |-> None])
       /\ MessageInit(has_initial, initial, kwargs)
  \/ \E k \in Names, v \in FieldValues : MessageSetAttr(k, v)
  \/ \E k \in Names, v \in FieldValues : MessageSetValue(k, v)


\* C6: writing a name the record type does not declare fails with a lookup
\* error on every write path named (the constructor's initializer mapping,
\* its keyword overrides, SetValue), and the name is not stored.
C6_UnknownNameFails ==
  (msg_last.op \in {"init_mapping", "init_kwargs", "SetValue"}
     /\ msg_last.names \cap Undeclared # {}) =>
    /\ msg_last.err = "KeyError"
    /\ msg = msg_last.before

\* C7: the value stored for a declared field is null or a value its
\* descriptor's ParseValue returned for a written value, and a write that
\* ParseValue rejected leaves the stored values as they were.
C7_StoredValuesAreParsed ==
  /\ msg.exists =>
       \A f \in Fields :
         msg.inst.values[f] = None
         \/ \E v \in ParseRange(class_fields[f]) : msg.inst.values[f] = << v >>
  /\ msg_last.err = "InvalidFieldValue" => msg = msg_last.before

(***************************************************************************)
(* Enum(defs). An item of defs is a name, or a tuple (name, idx).         *)
(***************************************************************************)
Item(name) == [name |-> name, tuple |-> FALSE, idx |-> 0]
TupleItem(name, idx) == [name |-> name, tuple |-> TRUE, idx |-> idx]
EnumItems ==
  { Item(n) : n \in {"A", "B", "C"} } \cup
  { TupleItem(n, i) : n \in {"A", "B", "C"}, i \in 0..MaxOrdinal }
DefLists == UNION { [1..m -> EnumItems] : m \in 0..MaxEnumLen }

\* dict[k] = v
Put(d, k, v) == [x \in DOMAIN d \cup {k} |-> IF x = k THEN v ELSE d[x]]

\* The first loop: namedict[idx] = name; names.append(name); idx += 1.
RECURSIVE NameLoop(_, _, _, _)
NameLoop(ds, names, namedict, idx) ==
  IF ds = << >> THEN [names |-> names, namedict |-> namedict]
  ELSE LET item == Head(ds)
           at == IF item.tuple THEN item.idx ELSE idx
       IN  NameLoop(Tail(ds), Append(names, item.name), Put(namedict, at, item.name), at + 1)

\* Mutant: the counter runs on from its own value after an explicit ordinal.
CounterKeepsRunning(i, idx) == i + 1

\* The second loop's `i = idx + 1`.
NextOrdinal(i, idx) == idx + 1

\* The second loop: assert idx not in constants; val = EnumValue(idx);
\* setattr(EnumClass, name, val); constants[idx] = val.
RECURSIVE ConstantLoop(_, _, _, _)
ConstantLoop(ds, constants, attrs, i) ==
  IF ds = << >> THEN [raised |-> FALSE, constants |-> constants, attrs |-> attrs]
  ELSE LET item == Head(ds)
           idx == IF item.tuple THEN item.idx ELSE i
       IN  IF idx \in constants
             THEN [raised |-> TRUE, constants |-> constants, attrs |-> attrs]
             ELSE ConstantLoop(Tail(ds), constants \cup {idx},
                               Put(attrs, item.name, idx), NextOrdinal(i, idx))

\* maximum = len(names) - 1
Maximum(names) == Len(names) - 1

NoEnum == [built |-> FALSE, raised |-> FALSE, names |-> << >>, namedict |-> << >>,
           constants |-> {}, attrs |-> << >>, maximum |-> 0]

\* Enum(defs): the enumerated set, or the AssertionError.
EnumOf(ds) ==
  IF ds = << >> THEN [NoEnum EXCEPT !.built = TRUE, !.raised = TRUE]
  ELSE LET n == NameLoop(ds, << >>, << >>, 0)
           c == ConstantLoop(ds, {}, << >>, 0)
       IN  [built |-> TRUE, raised |-> c.raised, names |-> n.names,
            namedict |-> n.namedict, constants |-> c.constants, attrs |-> c.attrs,
            maximum |-> Maximum(n.names)]

\* EnumValue.__invert__: constants[maximum - self.__value], or its KeyError.
Invert(en, v) ==
  IF (en.maximum - v) \in en.constants
    THEN [err |-> "ok", value |-> en.maximum - v]
    ELSE [err |-> "KeyError", value |-> 0]

\* EnumValue.__repr__: str(namedict[self.__value])
Repr(en, v) == IF v \in DOMAIN en.namedict THEN en.namedict[v] ELSE "KeyError"

NoInversion == [depth |-> 0, first |-> 0, operand |-> 0, err |-> "ok", value |-> 0]

EnumInit ==
  /\ defs \in DefLists
  /\ enum = NoEnum
  /\ enum_inv = NoInversion

EnumIdle ==
  /\ defs = << >>
  /\ enum = [NoEnum EXCEPT !.built = TRUE, !.raised = TRUE]
  /\ enum_inv = NoInversion

EnumBuild ==
  /\ ~enum.built
  /\ enum' = EnumOf(defs)
  /\ UNCHANGED << appvars, msgvars, kbvars, defs, enum_inv >>

\* ~v for a constant v of the set
EnumInvert(v) ==
  /\ enum.built /\ ~enum.raised /\ v \in enum.constants
  /\ LET r == Invert(enum, v)
     IN  enum_inv' = [depth |-> 1, first |-> v, operand |-> v, err |-> r.err,
                      value |-> r.value]
  /\ UNCHANGED << appvars, msgvars, kbvars, defs, enum >>

\* ~~v: the last inversion's result inverted again
EnumInvertAgain ==
  /\ enum.built /\ ~enum.raised /\ enum_inv.depth = 1 /\ enum_inv.err = "ok"
  /\ LET r == Invert(enum, enum_inv.value)
     IN  enum_inv' = [depth |-> 2, first |-> enum_inv.first, operand |-> enum_inv.value,
                      err |-> r.err, value |-> r.value]
  /\ UNCHANGED << appvars, msgvars, kbvars, defs, enum >>

EnumNext ==
  \/ EnumBuild
  \/ \E v \in 0..(MaxEnumLen + MaxOrdinal) : EnumInvert(v)
  \/ EnumInvertAgain


\* The ordinal the definition list gives its i-th entry: the explicit one,
\* else one more than the entry before it, starting at 0.
RECURSIVE DeclaredOrdinal(_, _)
DeclaredOrdinal(ds, i) ==
  IF ds[i].tuple THEN ds[i].idx
  ELSE IF i = 1 THEN 0 ELSE DeclaredOrdinal(ds, i - 1) + 1

OrdinalsCollide(ds) ==
  \E i \in 1..Len(ds), j \in 1..Len(ds) :
    i < j /\ DeclaredOrdinal(ds, i) = DeclaredOrdinal(ds, j)

\* C8: Enum numbers the entries from 0, an explicit ordinal is taken as it
\* is and the next unspecified entry gets that ordinal plus one, every
\* constant displays its declared name, and construction fails exactly when
\* the list is empty or two entries resolve to the same ordinal.
C8_OrdinalsAsDeclared ==
  enum.built =>
    /\ enum.raised <=> (defs = << >> \/ OrdinalsCollide(defs))
    /\ ~enum.raised =>
         /\ enum.constants = { DeclaredOrdinal(defs, i) : i \in 1..Len(defs) }
         /\ \A i \in 1..Len(defs) :
              /\ Repr(enum, DeclaredOrdinal(defs, i)) = defs[i].name
              /\ enum.names[i] = defs[i].name

C8_Witness ==
  /\ enum.built /\ ~enum.raised /\ Len(defs) = 3
  /\ ~defs[1].tuple /\ defs[2].tuple /\ defs[2].idx = 2 /\ ~defs[3].tuple
  /\ enum.constants = {0, 2, 3}

HighestOrdinal(en) == CHOOSE m \in en.constants : \A v \in en.constants : v <= m

\* C9: for every set Enum produces, explicit ordinals included, ~v is the
\* constant whose ordinal is max - v (max the highest ordinal of the set),
\* it never fails on a member, and ~~v is v.
C9_InvertMirrorsAnySet ==
  enum_inv.depth > 0 =>
    /\ enum_inv.err = "ok"
    /\ enum_inv.value = HighestOrdinal(enum) - enum_inv.operand
    /\ enum_inv.value \in enum.constants
    /\ enum_inv.depth = 2 => enum_inv.value = enum_inv.first

(***************************************************************************)
(* kbjson: dumps and loads. Text is a sequence of characters, a mapping a  *)
(* function from keys to values.                                           *)
(***************************************************************************)
NoDatetime == [year |-> 0, month |-> 0, day |-> 0, hour |-> 0, minute |-> 0,
               second |-> 0, microsecond |-> 0, aware |-> FALSE, offset |-> 0]
DatetimeValue(d) == [type |-> "datetime", dt |-> d, text |-> << >>]
StrValue(t) == [type |-> "str", dt |-> NoDatetime, text |-> t]

\* datetime.datetime values; offset is the utcoffset in minutes.
Datetimes ==
  { [year |-> 2010, month |-> 6, day |-> d, hour |-> 23, minute |-> 1, second |-> sec,
     microsecond |-> us, aware |-> tz[1], offset |-> tz[2]] :
      d \in {11, 30}, sec \in {1, 59}, us \in {0, 500000},
      tz \in { <<FALSE, 0>>, <<TRUE, 0>>, <<TRUE, -480>>, <<TRUE, 330>> } }

KeyTime == << "t", "i", "m", "e" >>
KeyDate == << "d", "a", "t", "e" >>
KeyLastLogin == << "l", "a", "s", "t", "_", "l", "o", "g", "i", "n" >>
TimeKeys == {KeyTime, << "s", "t", "a", "r", "t", "_" >> \o KeyTime}
OtherKeys == {<< "n", "o", "t", "a" >> \o KeyTime, << "n", "a", "m", "e" >>}
PlainTexts == { << "1", "2", "3" >>, << "1", "2", "3", "-", "4", "5" >> }

EndsWith(s, suffix) ==
  Len(s) >= Len(suffix) /\ SubSeq(s, Len(s) - Len(suffix) + 1, Len(s)) = suffix
StartsWith(s, prefix) ==
  Len(s) >= Len(prefix) /\ SubSeq(s, 1, Len(prefix)) = prefix

\* Mutant: 'date', 'time' or 'last_login' anywhere in the key.
LooksLikeTimeAnywhere(k) ==
  \E i \in 1..Len(k), j \in 1..Len(k) :
    i <= j /\ SubSeq(k, i, j) \in {KeyDate, KeyTime, KeyLastLogin}

\* k.endswith('date') or k.endswith('time') or k.startswith('date') or
\* k.startswith('last_login')
LooksLikeTime(k) ==
  \/ EndsWith(k, KeyDate) \/ EndsWith(k, KeyTime)
  \/ StartsWith(k, KeyDate) \/ StartsWith(k, KeyLastLogin)

Pad2(n) == IF n < 10 THEN << "0" >> \o IntToStr(n) ELSE IntToStr(n)
Pad4(n) ==
  IF n < 10 THEN << "0", "0", "0" >> \o IntToStr(n)
  ELSE IF n < 100 THEN << "0", "0" >> \o IntToStr(n)
  ELSE IF n < 1000 THEN << "0" >> \o IntToStr(n)
  ELSE IntToStr(n)

\* The %Z of the format: nothing for a naive value, Z for UTC, else +hh:mm.
TzIsoformat(d) ==
  IF ~d.aware THEN << >>
  ELSE IF d.offset = 0 THEN << "Z" >>
  ELSE IF d.offset < 0
    THEN << "-" >> \o Pad2((0 - d.offset) \div 60) \o << ":" >> \o Pad2((0 - d.offset) % 60)
    ELSE << "+" >> \o Pad2(d.offset \div 60) \o << ":" >> \o Pad2(d.offset % 60)

\* isodate.datetime_isoformat(obj), default format %Y-%m-%dT%H:%M:%S%Z
DatetimeIsoformat(d) ==
  Pad4(d.year) \o << "-" >> \o Pad2(d.month) \o << "-" >> \o Pad2(d.day) \o << "T" >>
    \o Pad2(d.hour) \o << ":" >> \o Pad2(d.minute) \o << ":" >> \o Pad2(d.second)
    \o TzIsoformat(d)

IsNumber(s, from, to) == Len(s) >= to /\ IsDigits(SubSeq(s, from, to))
Number(s, from, to) == StrToInt(SubSeq(s, from, to))

\* The digits after the decimal sign, as microseconds.
RECURSIVE Fraction(_, _)
Fraction(s, scale) ==
  IF s = << >> \/ scale = 0 THEN 0
  ELSE DigitVal(Head(s)) * scale + Fraction(Tail(s), scale \div 10)

\* The time zone designator: none, Z, or a sign and hh:mm.
ParseTz(s) ==
  IF s = << >> THEN [err |-> "ok", aware |-> FALSE, offset |-> 0]
  ELSE IF s = << "Z" >> THEN [err |-> "ok", aware |-> TRUE, offset |-> 0]
  ELSE IF /\ Len(s) = 6 /\ s[1] \in {"+", "-"} /\ IsNumber(s, 2, 3) /\ s[4] = ":"
          /\ IsNumber(s, 5, 6)
    THEN [err |-> "ok", aware |-> TRUE,
          offset |-> (IF s[1] = "-" THEN 0 - 1 ELSE 1) * (Number(s, 2, 3) * 60 + Number(s, 5, 6))]
  ELSE [err |-> "ValueError", aware |-> FALSE, offset |-> 0]

\* Where the digits of a fraction end.
RECURSIVE DigitRun(_, _)
DigitRun(s, from) ==
  IF from <= Len(s) /\ IsDigits(<< s[from] >>) THEN DigitRun(s, from + 1) ELSE from

DaysInMonth(y, m) ==
  IF m = 2 THEN (IF (y % 4 = 0 /\ y % 100 # 0) \/ y % 400 = 0 THEN 29 ELSE 28)
  ELSE IF m \in {4, 6, 9, 11} THEN 30 ELSE 31

\* isodate.parse_datetime(v) for the extended format yyyy-mm-ddThh:mm:ss,
\* an optional fraction and an optional zone: the value, or ValueError.
ParseDatetime(s) ==
  LET bad == [err |-> "ValueError", dt |-> NoDatetime]
      wellformed ==
        /\ Len(s) >= 19
        /\ IsNumber(s, 1, 4) /\ s[5] = "-" /\ IsNumber(s, 6, 7) /\ s[8] = "-"
        /\ IsNumber(s, 9, 10) /\ s[11] = "T"
        /\ IsNumber(s, 12, 13) /\ s[14] = ":" /\ IsNumber(s, 15, 16) /\ s[17] = ":"
        /\ IsNumber(s, 18, 19)
  IN  IF ~wellformed THEN bad
      ELSE LET hasfrac == Len(s) >= 21 /\ s[20] \in {".", ","} /\ IsDigits(<< s[21] >>)
               fracend == IF hasfrac THEN DigitRun(s, 21) ELSE 20
               us == IF hasfrac THEN Fraction(SubSeq(s, 21, fracend - 1), 100000) ELSE 0
               tz == ParseTz(SubSeq(s, fracend, Len(s)))
               y == Number(s, 1, 4)
               mo == Number(s, 6, 7)
               d == Number(s, 9, 10)
               h == Number(s, 12, 13)
               mi == Number(s, 15, 16)
               sec == Number(s, 18, 19)
           IN  IF \/ tz.err # "ok" \/ y < 1 \/ mo < 1 \/ mo > 12 \/ d < 1
                  \/ d > DaysInMonth(y, mo) \/ h > 23 \/ mi > 59 \/ sec > 59
                 THEN bad
                 ELSE [err |-> "ok",
                       dt |-> [year |-> y, month |-> mo, day |-> d, hour |-> h,
                               minute |-> mi, second |-> sec, microsecond |-> us,
                               aware |-> tz.aware, offset |-> tz.offset]]

\* dumps(obj): the document, its strings kept as text; JSONEncoder.default
\* writes a datetime in ISO format.
Dumps(obj) ==
  [k \in DOMAIN obj |->
     IF obj[k].type = "datetime" THEN DatetimeIsoformat(obj[k].dt) ELSE obj[k].text]

\* _ToAttrDict: the object hook.
ToAttrDict(obj) ==
  [k \in DOMAIN obj |->
     IF LooksLikeTime(k)
       THEN LET r == ParseDatetime(obj[k])
            IN  IF r.err = "ok" THEN DatetimeValue(r.dt) ELSE StrValue(obj[k])
       ELSE StrValue(obj[k])]

\* loads(data)
Loads(doc) == ToAttrDict(doc)


Mappings2(k, t, k2, text) ==
  [x \in {k, k2} |-> IF x = k THEN DatetimeValue(t) ELSE StrValue(text)]

JsonInit ==
  /\ kb_obj \in { [x \in {k} |-> DatetimeValue(t)] : k \in TimeKeys, t \in Datetimes } \cup
                { Mappings2(k[1], t, k[2], text) :
                    k \in TimeKeys \X OtherKeys, t \in Datetimes, text \in PlainTexts }
  /\ kb_doc = << >>
  /\ kb_out = << >>
  /\ kb_pc = "obj"

JsonIdle ==
  /\ kb_obj = << >>
  /\ kb_doc = << >>
  /\ kb_out = << >>
  /\ kb_pc = "off"

JsonDumps ==
  /\ kb_pc = "obj"
  /\ kb_doc' = Dumps(kb_obj)
  /\ kb_pc' = "dumped"
  /\ UNCHANGED << appvars, msgvars, enumvars, kb_obj, kb_out >>

JsonLoads ==
  /\ kb_pc = "dumped"
  /\ kb_out' = Loads(kb_doc)
  /\ kb_pc' = "loaded"
  /\ UNCHANGED << appvars, msgvars, enumvars, kb_obj, kb_doc >>

JsonNext == JsonDumps \/ JsonLoads

\* Days from 0001-01-01, as datetime.toordinal counts them.
RECURSIVE DaysBeforeMonth(_, _)
DaysBeforeMonth(y, m) ==
  IF m = 1 THEN 0 ELSE DaysBeforeMonth(y, m - 1) + DaysInMonth(y, m - 1)
ToOrdinal(d) ==
  LET y == d.year - 1
  IN  y * 365 + (y \div 4) - (y \div 100) + (y \div 400) + DaysBeforeMonth(d.year, d.month) + d.day

\* The minute of the instant, in UTC for an aware value.
Minutes(d) == (ToOrdinal(d) * 24 + d.hour) * 60 + d.minute - d.offset

\* datetime ==: the same instant for two aware values, the same fields for
\* two naive ones.
DatetimeEq(a, b) ==
  /\ a.aware = b.aware
  /\ Minutes(a) = Minutes(b)
  /\ a.second = b.second
  /\ a.microsecond = b.microsecond

MappingEq(a, b) ==
  /\ DOMAIN a = DOMAIN b
  /\ \A k \in DOMAIN a :
       /\ a[k].type = b[k].type
       /\ IF a[k].type = "datetime" THEN DatetimeEq(a[k].dt, b[k].dt)
          ELSE a[k].text = b[k].text

TimeKeyOf(obj) == CHOOSE k \in DOMAIN obj : k \in TimeKeys

\* C10: for any date-time value t in a mapping under a key ending in
\* "time", loads(dumps(mapping)) equals the mapping, the entry decoded back
\* to a date-time value equal to t.
C10_RoundTrip ==
  kb_pc = "loaded" =>
    /\ kb_out[TimeKeyOf(kb_obj)].type = "datetime"
    /\ DatetimeEq(kb_out[TimeKeyOf(kb_obj)].dt, kb_obj[TimeKeyOf(kb_obj)].dt)
    /\ MappingEq(kb_out, kb_obj)

\* Keys of a document to decode: those the key test of _ToAttrDict takes for
\* times (time, iso_time, date, duedate, date_in, last_login, last_login_ip)
\* and those it does not (name, timer, updated, my_last_login_x).
HeuristicKeys ==
  { KeyTime, << "i", "s", "o", "_" >> \o KeyTime, KeyDate, << "d", "u", "e" >> \o KeyDate,
    KeyDate \o << "_", "i", "n" >>, KeyLastLogin, KeyLastLogin \o << "_", "i", "p" >> }
PlainKeys ==
  { << "n", "a", "m", "e" >>, KeyTime \o << "r" >>, << "u", "p" >> \o KeyDate \o << "d" >>,
    << "m", "y", "_" >> \o KeyLastLogin \o << "_", "x" >> }

\* Strings of a document: ISO-8601 date-times (as the encoder writes them,
\* and one with a fraction of a second), and strings that are none.
IsoTexts ==
  { DatetimeIsoformat(d) : d \in { t \in Datetimes : t.day = 11 /\ t.second = 1 } } \cup
  { DatetimeIsoformat(CHOOSE t \in Datetimes :
      t.day = 11 /\ t.second = 1 /\ t.microsecond = 0 /\ ~t.aware) \o << ".", "5", "Z" >> }
NonIsoTexts ==
  { << >>, << "1", "2", "3" >>, << "1", "2", "3", "-", "4", "5" >>,
    << "2", "0", "1", "0", "-", "1", "3", "-", "4", "5", "T", "2", "3", ":", "0", "1", ":",
       "0", "1" >>,
    << "2", "0", "1", "0", "-", "0", "6", "-", "1", "1", "T", "2", "3", ":", "0", "1" >> \o
      << ":", "0", "1", "+", "0", "8" >> \o << "x" >> }

\* The documents handed to loads: one string entry, or two.
Documents ==
  LET texts == IsoTexts \cup NonIsoTexts
  IN  { [x \in {k} |-> t] : k \in HeuristicKeys \cup PlainKeys, t \in texts } \cup
      { [x \in {k[1], k[2]} |-> IF x = k[1] THEN t[1] ELSE t[2]] :
          k \in HeuristicKeys \X PlainKeys, t \in texts \X texts }

\* loads(data) on a document that dumps did not write.
DecodeInit ==
  /\ kb_obj = << >>
  /\ kb_doc \in Documents
  /\ kb_out = << >>
  /\ kb_pc = "dumped"

\* C11: decoding never fails on a date-time parse and alters no other
\* string: a string entry becomes a date-time only if its key ends with
\* "date" or "time" or starts with "date" or "last_login" and the string
\* parses as ISO-8601; in every other case the decoded value is the
\* original string.
C11_DecodeByKeyAndParse ==
  kb_pc = "loaded" =>
    /\ DOMAIN kb_out = DOMAIN kb_doc
    /\ \A k \in DOMAIN kb_doc :
         IF k \in HeuristicKeys /\ kb_doc[k] \in IsoTexts
           THEN kb_out[k].type = "datetime" /\ kb_out[k].text = << >>
           ELSE kb_out[k] = StrValue(kb_doc[k])

C11_Witness ==
  /\ kb_pc = "loaded" /\ kb_obj = << >>
  /\ \E k \in DOMAIN kb_doc, p \in DOMAIN kb_doc :
       /\ k \in HeuristicKeys /\ kb_doc[k] \in IsoTexts /\ kb_out[k].type = "datetime"
       /\ p \in PlainKeys /\ kb_doc[p] \in IsoTexts /\ kb_out[p] = StrValue(kb_doc[p])

MessageRun == MsgInit /\ AppIdle /\ EnumIdle /\ JsonIdle
SpecMessage == MessageRun /\ [][MsgNext]_vars

EnumRun == EnumInit /\ AppIdle /\ MsgIdle /\ JsonIdle
SpecEnum == EnumRun /\ [][EnumNext]_vars

JsonRun == JsonInit /\ AppIdle /\ MsgIdle /\ EnumIdle
SpecJson == JsonRun /\ [][JsonNext]_vars

DecodeRun == DecodeInit /\ AppIdle /\ MsgIdle /\ EnumIdle
SpecDecode == DecodeRun /\ [][JsonLoads]_vars

MainStep ==
  \/ SetupLogging \/ SetupSignalHandlers \/ GetLogger
  \/ Start \/ Setup \/ CheckAndRecordPid \/ StartThreads
  \/ MainLoopTest \/ MainLoopWake \/ Teardown

QuitStep ==
  \/ StopThreadsNext \/ StopThreadsJoin \/ StopThreadsJoined
  \/ TeardownLogging \/ QuitSetFlag

ThreadStep(t) ==
  \/ BaseThreadMain(t) \/ AsyncoreTest(t) \/ AsyncoreLoop(t) \/ AsyncoreSleep(t)

Next ==
  \/ SetupLogging \/ SetupSignalHandlers \/ GetLogger
  \/ \E thr \in ThreadIds : AddAppThread(thr)
  \/ Start \/ Setup \/ CheckAndRecordPid \/ StartThreads
  \/ MainLoopTest \/ MainLoopWake \/ Teardown
  \/ QuitSignalHandler
  \/ StopThreadsNext \/ StopThreadsJoin \/ StopThreadsJoined
  \/ TeardownLogging \/ QuitSetFlag
  \/ \E t \in ThreadIds :
       BaseThreadMain(t) \/ AsyncoreTest(t) \/ AsyncoreLoop(t) \/ AsyncoreSleep(t)
  \/ Tick

\* Startup: every flag set and PID file, a small shutdown.
StartupInit == AppInit(FlagSets, StartupThreads, StartupSignals) /\ MsgIdle /\ EnumIdle /\ JsonIdle
SpecStartup == StartupInit /\ [][Next]_vars

\* Shutdown: a plain run with every thread set and MaxSignals signals.
Init == AppInit(PlainFlags, MaxThreads, MaxSignals) /\ MsgIdle /\ EnumIdle /\ JsonIdle
Spec == Init /\ [][Next]_vars

(***************************************************************************)
(* Scheduling: the interpreter runs the main thread, a pending handler and *)
(* every started thread again and again, and time does not stand still.    *)
(***************************************************************************)
ThreadFair(t) == t \in ThreadIds /\ ThreadStep(t)

\* Time diverges: the threads do not take infinitely many steps within one tick.
TimeDiverges == []<>(~ProcessAlive \/ TimeMayPass)

Fairness ==
  /\ WF_vars(MainStep)
  /\ WF_vars(QuitStep)
  /\ \A t \in 1..(MaxThreads + 1) : WF_vars(ThreadFair(t))
  /\ SF_vars(Tick)
  /\ TimeDiverges

FairSpec == Spec /\ Fairness
FairStartup == SpecStartup /\ Fairness

(***************************************************************************)
(* The claims about the application lifecycle.                             *)
(***************************************************************************)
QuitCalled == frames # << >> \/ do_quit

\* C1: with a pidfile configured and startup succeeded, the PID file holds
\* the current process id as one decimal line while the application is in
\* its main loop; once Quit has been called the main loop exits, teardown
\* runs and the PID file no longer exists.
C1_PidFileLifecycle ==
  /\ [](FLAGS.pidfile /\ AppRunning => pidfile = TextFile(FormatPid(mypid)))
  /\ (FLAGS.pidfile /\ AppRunning /\ QuitCalled) ~> (pc = "done" /\ ~pidfile.exists)

C1_Witness ==
  /\ pc = "done" /\ FLAGS.pidfile /\ pid_outcome = "written" /\ ~pidfile.exists
  /\ daemonized /\ quit_log.valid /\ quit_log.running

\* What the PID file found at startup records.
OldPid == ReadOldPid(pidfile0)
NoThreadStarted == \A t \in ThreadIds : tstate[t] = "new"
PidChecked == FLAGS.pidfile /\ pid_outcome # "none"

Polling == {t \in threads : kind[t] = "asyncore"}

\* C3 as stated: when Quit was called with the application Running, by the
\* time it returns every registered polling thread has had its stop
\* requested and is not alive, after at most one join each.
C3_AllAskedAndStopped ==
  (quit_log.valid /\ quit_log.running) =>
    \A t \in Polling :
      /\ tquit[t]
      /\ t \notin quit_log.alive_at_return
      /\ quit_log.joins[t] <= 1

\* C3 amended: when Quit was called with the application Running, by the
\* time it returns every registered polling thread is not alive, after at
\* most one join each; each one Quit found alive has had its stop requested,
\* and one whose work routine had already ended (it raised) has not.
C3_AllStoppedAliveOnesAsked ==
  (quit_log.valid /\ quit_log.running) =>
    \A t \in Polling :
      /\ t \notin quit_log.alive_at_return
      /\ quit_log.joins[t] <= 1
      /\ t \in quit_log.asked => tquit[t]
      /\ t \notin quit_log.asked => tstate[t] = "exited" /\ (tcrashed[t] \/ tquit[t])

C3_Witness ==
  /\ quit_log.valid /\ quit_log.running
  /\ \E t \in Polling, u \in Polling :
       /\ t \in quit_log.asked /\ quit_log.joins[t] = 1 /\ tstate[t] = "exited"
       /\ u # t /\ u \in quit_log.asked

\* C4: Quit always completes, setting the quit flag and the wait condition,
\* and the main loop exits once a quit has been requested, also when a
\* registered thread never honours its stop request; such a thread outlives
\* its join, and the run still ends normally.
C4_QuitCompletes ==
  /\ (frames # << >>) ~> (frames = << >> /\ do_quit /\ quit_event)
  /\ (AppRunning /\ QuitCalled) ~> ~AppRunning
  /\ [](pc = "done" => exitcode = 0 /\ do_quit)

C4_Witness ==
  /\ pc = "done" /\ exitcode = 0
  /\ \E t \in threads :
       kind[t] = "deaf" /\ tstate[t] = "running" /\ tquit[t] /\ t \in quit_log.timed_out

LoggingConfigured == pc # "ctor_logging"

\* C5 as stated: in daemon mode the process detaches first, only then are
\* the logging sinks configured, and only after that is the PID file
\* checked; no sink is installed before the detach.
C5_DetachBeforeLogging ==
  /\ (is_daemon /\ ~daemonized) => (root_handlers = {} /\ ~LoggingConfigured)
  /\ pid_outcome # "none" => (LoggingConfigured /\ (is_daemon => daemonized))

\* C5 amended: the logging sinks are configured first, at construction (the
\* file sink if configured, the console sink never in daemon mode); in
\* daemon mode the process detaches after that, in Start; and only after
\* the detach is the PID file checked and written.
C5_LoggingBeforeDetach ==
  /\ daemonized => LoggingConfigured
  /\ is_daemon => "stdout" \notin root_handlers
  /\ (pc = "setup" /\ ~QuitCalled) =>
        /\ ~daemonized
        /\ ("file" \in root_handlers) <=> FLAGS.log_to_file
        /\ ("stdout" \in root_handlers) <=> (FLAGS.log_to_stdout /\ ~is_daemon)
  /\ pid_outcome # "none" => (LoggingConfigured /\ (is_daemon => daemonized))

C5_Witness ==
  /\ is_daemon /\ daemonized /\ pid_outcome = "written"
  /\ root_handlers = {"file"} /\ FLAGS.log_to_stdout

\* C12: however a termination signal interleaves with the steps of Start,
\* also one delivered after the handlers are installed and before the
\* registered threads are started, when the main wait loop exits every
\* registered thread that was started (and has not ended by itself) has had
\* its stop requested: none is started after Quit has run and left running
\* without a stop request.
C12_StartedThreadsAskedAtExit ==
  pc = "teardown" => \A t \in threads : tstate[t] = "running" => tquit[t]

====
